---- MODULE Spec2Model ----
(***************************************************************************)
(* Model of run.py: a measurement loop that averages N frequency queries   *)
(* of an oscilloscope per cycle, converts the average to a period string,  *)
(* prints one record per cycle for M cycles and closes the instrument, and *)
(* a SIGINT handler that closes the instrument and exits.                  *)
(*                                                                         *)
(* The main thread is modelled statement by statement (pc).  Python runs a *)
(* signal handler on the main thread, between two bytecodes of whatever is *)
(* executing, the handler itself included: the handler activations form a  *)
(* stack (hstack) on top of the main program, and only the top runs.       *)
(*                                                                         *)
(* Floats are modelled as exact rationals [num, den]; the binary rounding  *)
(* of a double is outside the model.                                       *)
(***************************************************************************)
EXTENDS Integers, Sequences, FiniteSets, TLC

\* ------------------------------------------------------------ bounds
\* N of run.py:90 (19 there), the samples of one measurement
SamplesPerCycle == 2
\* M of run.py:91 (30000 there), the number of measurements
TotalCycles == 2
\* how many times SIGINT is delivered at most in one run
MaxSignals == 2
\* largest n handed to measure_frequency when it is exercised alone
MaxN == 3
\* largest |numerator| and denominator of a frequency handed to
\* frequency_to_period_scientific when it is exercised alone
MaxFreqNum == 12
MaxFreqDen == 4
\* how many times the wall clock advances at most in one run
MaxTicks == 2

\* the digits after the decimal point of f"{period:.20E}"
FracDigits == 20
\* run.py:16: the seconds of a day, the microseconds of a second
SecondsPerDay == 86400
MicrosPerSecond == 1000000
\* run.py:111: the milliseconds of a second
MsPerSecond == 1000
\* run.py:118: the digits after the decimal point of {elapsed_time_ms:.2f} and
\* of {mjd:.5f}
GateDigits == 2
MjdDigits == 5

\* the values a parsable reply to ":MEASure:FREQuency?" may carry
SampleVals == {-1, 1}
\* the other outcomes of float(scope.query(...)): query raises, float raises
QueryFailures == {"VisaIOError", "ValueError_float"}

\* the wall clock when the program starts, as the timedelta of run.py:15 (the
\* time since MJD_EPOCH): half a second before the end of day 61346
ClockStart == [days |-> 61346, seconds |-> 86399, microseconds |-> 500000]
\* the microseconds by which the wall clock advances in one step
ClockStep == 500000

VARIABLES
    pc,          \* position of the main program
    hstack,      \* positions of the active handle_sigint activations, top last
    installed,   \* signal.signal(SIGINT, handle_sigint) has run
    sigCount,    \* SIGINTs delivered so far
    handle,      \* the pyvisa resource: "none", "open", "closed"
    scopeSet,    \* the module-level name 'scope' is bound
    first_time,  \* run.py:89
    i,           \* index of the current cycle, the loop variable of run.py:94
    n,           \* argument n of the running measure_frequency call
    issued,      \* queries the generator of run.py:45 has issued in this call
    total,       \* running sum of run.py:45
    samples,     \* the replies parsed so far in this call, in order
    avg,         \* avg_frequency, a rational, NoValue when unset
    period,      \* period, a rendered string, NoPeriod when unset
    out,         \* the lines printed so far
    trace,       \* instrument calls, records and signals, in order
    exc,         \* the exception that ended the main program, "none" if none
    exitCode,    \* the exit status the process ends with
    ticks,       \* steps the wall clock has advanced since the program started
    start_time,  \* run.py:100, a time since MJD_EPOCH, NoTime when unset
    end_time,    \* run.py:102, likewise
    mjd,         \* run.py:108, [whole, frac], NoMjd when unset
    elapsed_time_ms  \* run.py:111, a rational, NoValue when unset

clock == <<ticks, start_time, end_time, mjd, elapsed_time_ms>>

vars == <<pc, hstack, installed, sigCount, handle, scopeSet, first_time, i, n,
          issued, total, samples, avg, period, out, trace, exc, exitCode, clock>>

\* ------------------------------------------------------------ floats
NoValue == [num |-> 0, den |-> 0]
NoPeriod == [mant |-> <<>>, exp |-> 0]

RECURSIVE GCD(_, _)
GCD(a, b) == IF b = 0 THEN a ELSE GCD(b, a % b)

Abs(x) == IF x < 0 THEN -x ELSE x

\* a / b for b # 0, in lowest terms with a positive denominator
Quotient(a, b) ==
    LET g == GCD(Abs(a), Abs(b))
        s == IF b < 0 THEN -1 ELSE 1
    IN  [num |-> (s * a) \div g, den |-> (s * b) \div g]

RECURSIVE Pow10(_)
Pow10(k) == IF k = 0 THEN 1 ELSE 10 * Pow10(k - 1)

\* the decimal exponent e of a/b > 0: 10^e <= a/b < 10^(e+1)
RECURSIVE Exponent(_, _, _)
Exponent(a, b, e) ==
    IF a < b THEN Exponent(10 * a, b, e - 1)
    ELSE IF a >= 10 * b THEN Exponent(a, 10 * b, e + 1)
    ELSE e

\* long division of a by b, k digits more after the digits acc, and what is left
RECURSIVE LongDivFrom(_, _, _, _)
LongDivFrom(a, b, k, acc) ==
    IF k = 0 THEN [digits |-> acc, rem |-> a]
    ELSE LongDivFrom(10 * (a % b), b, k - 1, Append(acc, a \div b))

\* the first k digits of a/b (1 <= a/b < 10) by long division, and what is left
LongDiv(a, b, k) == LongDivFrom(a, b, k, <<>>)

\* the number of 9s a digit sequence ends with
RECURSIVE TrailingNines(_)
TrailingNines(ds) ==
    IF ds = <<>> \/ ds[Len(ds)] # 9 THEN 0
    ELSE 1 + TrailingNines(SubSeq(ds, 1, Len(ds) - 1))

\* add one in the last place of a digit sequence; carry TRUE when it overflows
Increment(ds) ==
    LET t == TrailingNines(ds)
        k == Len(ds) - t
    IN  [digits |-> [j \in 1 .. Len(ds) |->
                        IF j > k THEN 0 ELSE IF j = k THEN ds[j] + 1 ELSE ds[j]],
         carry |-> k = 0]

\* f"{a/b:.20E}" for a/b > 0: FracDigits + 1 significant digits, the last
\* rounded half to even, and the decimal exponent
FormatE(a, b) ==
    LET e  == Exponent(a, b, 0)
        sa == IF e < 0 THEN a * Pow10(-e) ELSE a
        sb == IF e > 0 THEN b * Pow10(e) ELSE b
        ld == LongDiv(sa, sb, FracDigits + 1)
        \* ld.rem is 10 * the remainder after the last digit
        up == \/ ld.rem > 5 * sb
              \/ ld.rem = 5 * sb /\ ld.digits[FracDigits + 1] % 2 = 1
        inc == Increment(ld.digits)
    IN  IF ~up THEN [mant |-> ld.digits, exp |-> e]
        ELSE IF ~inc.carry THEN [mant |-> inc.digits, exp |-> e]
        ELSE [mant |-> <<1>> \o SubSeq(inc.digits, 1, FracDigits), exp |-> e + 1]

\* ------------------------------------------------------------ clock
NoTime == [days |-> 0, seconds |-> 0, microseconds |-> 0]
NoMjd == [whole |-> 0, frac |-> NoValue]
NoFixed == [neg |-> FALSE, whole |-> 0, digits |-> <<>>]

\* the wall clock after t steps, normalised as a timedelta is: 0 <= seconds <
\* SecondsPerDay and 0 <= microseconds < MicrosPerSecond
Time(t) ==
    LET us == ClockStart.microseconds + t * ClockStep
        s  == ClockStart.seconds + us \div MicrosPerSecond
    IN  [days |-> ClockStart.days + s \div SecondsPerDay,
         seconds |-> s % SecondsPerDay,
         microseconds |-> us % MicrosPerSecond]

\* what a read of the wall clock returns now
Now == Time(ticks)

\* r / k and r * k for a rational r and an integer k > 0, in lowest terms
RatDiv(r, k) ==
    LET g == GCD(Abs(r.num), k)
    IN  [num |-> r.num \div g, den |-> r.den * (k \div g)]
RatMul(r, k) ==
    LET g == GCD(r.den, k)
    IN  [num |-> r.num * (k \div g), den |-> r.den \div g]
\* p + q over the least common denominator
RatAdd(p, q) ==
    LET g == GCD(p.den, q.den)
        l == (p.den \div g) * q.den
    IN  Quotient(p.num * (l \div p.den) + q.num * (l \div q.den), l)

\* run.py:16: delta.days + delta.seconds / 86400.0
\*                       + delta.microseconds / 86400.0 / 1e6,
\* kept as the whole days and the fraction of a day (< 1 for a timedelta)
get_modified_julian_date(delta) ==
    [whole |-> delta.days,
     frac  |-> RatAdd(Quotient(delta.seconds, SecondsPerDay),
                      RatDiv(Quotient(delta.microseconds, SecondsPerDay),
                             MicrosPerSecond))]

\* run.py:111: (end_time - start_time) * 1000
Elapsed(s, e) ==
    LET us == ((e.days - s.days) * SecondsPerDay + (e.seconds - s.seconds))
                  * MicrosPerSecond + (e.microseconds - s.microseconds)
    IN  RatMul(Quotient(us, MicrosPerSecond), MsPerSecond)

\* f"{x:.kf}" for x = whole + frac, whole >= 0 and 0 <= frac < 1: the digits
\* of the whole part and k digits after the point, rounded half to even
FormatF(whole, frac, k) ==
    LET ld == LongDivFrom(10 * frac.num, frac.den, k, <<>>)
        \* ld.rem is 10 * the remainder after the last digit
        up == \/ ld.rem > 5 * frac.den
              \/ ld.rem = 5 * frac.den /\ ld.digits[k] % 2 = 1
        inc == Increment(ld.digits)
    IN  IF ~up THEN [neg |-> FALSE, whole |-> whole, digits |-> ld.digits]
        ELSE [neg |-> FALSE,
              whole |-> IF inc.carry THEN whole + 1 ELSE whole,
              digits |-> inc.digits]

\* f"{mjd:.5f}"
FormatMjd(m) == FormatF(m.whole, m.frac, MjdDigits)

\* f"{elapsed_time_ms:.2f}": the sign, and the magnitude as above
FormatGate(r) ==
    LET a == Abs(r.num)
    IN  [FormatF(a \div r.den, [num |-> a % r.den, den |-> r.den], GateDigits)
            EXCEPT !.neg = r.num < 0]

\* ------------------------------------------------------------ period
\* a variant that rejects only zero: a negative frequency gets a string
NegativeAccepted(frequency) ==
    IF frequency.num = 0
    THEN [raised |-> "ValueError_frequency", value |-> NoPeriod]
    ELSE [raised |-> "none",
          value |-> FormatE(frequency.den, Abs(frequency.num))]

\* a variant whose guard is frequency < 0: 1 / 0.0 then raises
StrictGuard(frequency) ==
    IF frequency.num < 0
    THEN [raised |-> "ValueError_frequency", value |-> NoPeriod]
    ELSE IF frequency.num = 0
    THEN [raised |-> "ZeroDivisionError", value |-> NoPeriod]
    ELSE [raised |-> "none", value |-> FormatE(frequency.den, frequency.num)]

\* run.py:55-65.  The result is [raised, value]: the exception raised ("none"
\* when the function returns) and the string returned.
frequency_to_period_scientific(frequency) ==
    IF frequency.num <= 0
    THEN [raised |-> "ValueError_frequency", value |-> NoPeriod]
    ELSE [raised |-> "none", value |-> FormatE(frequency.den, frequency.num)]

\* ------------------------------------------------------------ helpers
Event(ev, by) ==
    [ev |-> ev, by |-> by, cycle |-> i, at |-> pc, issued |-> issued,
     clock |-> ticks]
Line(kind) ==
    [kind |-> kind, cycle |-> i, counter |-> NoPeriod, gate |-> NoFixed,
     mjd |-> NoFixed]

\* the main program executes only while no handler activation is on top of it
MainAt(p) == pc = p /\ hstack = <<>>

\* an exception leaves the main program uncaught: traceback, exit status 1
\* (SystemExit: the status it carries); the interpreter then finalizes
Uncaught(e, code) ==
    /\ pc' = "finalize"
    /\ exc' = e
    /\ exitCode' = code

\* an exception leaves a handler activation: it unwinds every activation and
\* then the main program; while the interpreter is finalizing it is only
\* reported ("Exception ignored in ...") and the exit status stays
Unwind(e, code) ==
    /\ hstack' = <<>>
    /\ IF pc = "finalize"
       THEN UNCHANGED <<pc, exc, exitCode>>
       ELSE Uncaught(e, code)

Top == hstack[Len(hstack)]
SetTop(p) == hstack' = [hstack EXCEPT ![Len(hstack)] = p]
HandlerAt(p) == hstack # <<>> /\ Top = p

\* ------------------------------------------------------------ start-up
Init ==
    /\ pc = "signal_install"
    /\ hstack = <<>>
    /\ installed = FALSE
    /\ sigCount = 0
    /\ handle = "none"
    /\ scopeSet = FALSE
    /\ first_time = FALSE
    /\ i = 0
    /\ n = 0
    /\ issued = 0
    /\ total = 0
    /\ samples = <<>>
    /\ avg = NoValue
    /\ period = NoPeriod
    /\ out = <<>>
    /\ trace = <<>>
    /\ exc = "none"
    /\ exitCode = 0
    /\ ticks = 0
    /\ start_time = NoTime
    /\ end_time = NoTime
    /\ mjd = NoMjd
    /\ elapsed_time_ms = NoValue

\* run.py:77
SignalInstall ==
    /\ MainAt("signal_install")
    /\ installed' = TRUE
    /\ pc' = "open_resource"
    /\ UNCHANGED <<hstack, sigCount, handle, scopeSet, first_time, i, n, issued,
                   total, samples, avg, period, out, trace, exc, exitCode>>
    /\ UNCHANGED clock

\* run.py:23-25, inside dso_init: the resource is held by dso_init's local
OpenResource ==
    /\ MainAt("open_resource")
    /\ \/ /\ handle' = "open"
          /\ trace' = Append(trace, Event("open", "main"))
          /\ pc' = "idn"
          /\ UNCHANGED <<exc, exitCode>>
       \/ /\ Uncaught("VisaIOError", 1)
          /\ UNCHANGED <<handle, trace>>
    /\ UNCHANGED <<hstack, installed, sigCount, scopeSet, first_time, i, n,
                   issued, total, samples, avg, period, out>>
    /\ UNCHANGED clock

\* run.py:26
Identify ==
    /\ MainAt("idn")
    /\ trace' = Append(trace, Event("idn", "main"))
    /\ \/ /\ out' = Append(out, Line("connected"))
          /\ pc' = "configure"
          /\ UNCHANGED <<exc, exitCode>>
       \/ /\ Uncaught("VisaIOError", 1)
          /\ UNCHANGED out
    /\ UNCHANGED <<hstack, installed, sigCount, handle, scopeSet, first_time, i,
                   n, issued, total, samples, avg, period>>
    /\ UNCHANGED clock

\* run.py:32-36
Configure ==
    /\ MainAt("configure")
    /\ trace' = Append(trace, Event("write", "main"))
    /\ \/ /\ pc' = "assign"
          /\ UNCHANGED <<exc, exitCode>>
       \/ Uncaught("VisaIOError", 1)
    /\ UNCHANGED <<hstack, installed, sigCount, handle, scopeSet, first_time, i,
                   n, issued, total, samples, avg, period, out>>
    /\ UNCHANGED clock

\* run.py:87-91: dso_init returns and the module-level scope is bound
Assign ==
    /\ MainAt("assign")
    /\ scopeSet' = TRUE
    /\ first_time' = TRUE
    /\ pc' = "for"
    /\ UNCHANGED <<hstack, installed, sigCount, handle, i, n, issued, total, samples,
                   avg, period, out, trace, exc, exitCode>>
    /\ UNCHANGED clock

\* ------------------------------------------------------------ the loop
\* a variant that leaves the loop one cycle early
LoopStopsEarly == i + 1 < TotalCycles

\* run.py:94: range(M) still has an item
LoopContinues == i < TotalCycles

\* run.py:94
For ==
    /\ MainAt("for")
    /\ pc' = IF LoopContinues THEN "print_samples" ELSE "dso_close"
    /\ UNCHANGED <<hstack, installed, sigCount, handle, scopeSet, first_time, i,
                   n, issued, total, samples, avg, period, out, trace, exc, exitCode>>
    /\ UNCHANGED clock

\* run.py:96-97
PrintSamples ==
    /\ MainAt("print_samples")
    /\ out' = IF first_time THEN Append(out, Line("samples")) ELSE out
    /\ pc' = "start_time"
    /\ UNCHANGED <<hstack, installed, sigCount, handle, scopeSet, first_time, i,
                   n, issued, total, samples, avg, period, trace, exc, exitCode>>
    /\ UNCHANGED clock

\* a variant that reads the start time in the first cycle only
StartTimeOnce ==
    /\ MainAt("start_time")
    /\ start_time' = IF first_time THEN Now ELSE start_time
    /\ trace' = Append(trace, Event("start_time", "main"))
    /\ pc' = "measure"
    /\ UNCHANGED <<hstack, installed, sigCount, handle, scopeSet, first_time, i,
                   n, issued, total, samples, avg, period, out, exc, exitCode>>
    /\ UNCHANGED <<ticks, end_time, mjd, elapsed_time_ms>>

\* run.py:100: time.time(), the wall clock; kept as the time since MJD_EPOCH,
\* which differs from the time since 1970 by a constant
StartTime ==
    /\ MainAt("start_time")
    /\ start_time' = Now
    /\ trace' = Append(trace, Event("start_time", "main"))
    /\ pc' = "measure"
    /\ UNCHANGED <<hstack, installed, sigCount, handle, scopeSet, first_time, i,
                   n, issued, total, samples, avg, period, out, exc, exitCode>>
    /\ UNCHANGED <<ticks, end_time, mjd, elapsed_time_ms>>

\* run.py:101, 43-45: measure_frequency(scope, n=N) is entered; sum starts at 0
CallMeasure ==
    /\ MainAt("measure")
    /\ n' = SamplesPerCycle
    /\ issued' = 0
    /\ total' = 0
    /\ samples' = <<>>
    /\ pc' = "mf_next"
    /\ UNCHANGED <<hstack, installed, sigCount, handle, scopeSet, first_time, i,
                   avg, period, out, trace, exc, exitCode>>
    /\ UNCHANGED clock

\* a variant that takes one sample less
OneSampleLess == issued + 1 < n

\* run.py:45: range(n) still has an item
MoreSamples == issued < n

\* run.py:45: sum asks the generator for its next item; scope.query sends the
\* command and waits for the reply
MfNext ==
    /\ MainAt("mf_next")
    /\ IF MoreSamples
       THEN /\ issued' = issued + 1
            /\ trace' = Append(trace, Event("query", "main"))
            /\ pc' = "mf_reply"
       ELSE /\ pc' = "mf_return"
            /\ UNCHANGED <<issued, trace>>
    /\ UNCHANGED <<hstack, installed, sigCount, handle, scopeSet, first_time, i,
                   n, total, samples, avg, period, out, exc, exitCode>>
    /\ UNCHANGED clock

\* run.py:45: a sample is added to the sum
Accumulate(t, v) == t + v

\* a variant that swallows a failed query and goes on with the next one
MfReplySkipsFailure ==
    /\ MainAt("mf_reply")
    /\ \/ \E v \in SampleVals :
             /\ total' = Accumulate(total, v)
             /\ samples' = Append(samples, v)
             /\ trace' = Append(trace, Event("reply", "main"))
       \/ /\ trace' = Append(trace, Event("failed", "main"))
          /\ UNCHANGED <<total, samples>>
    /\ pc' = "mf_next"
    /\ UNCHANGED <<hstack, installed, sigCount, handle, scopeSet, first_time, i,
                   n, issued, avg, period, out, exc, exitCode>>
    /\ UNCHANGED clock

\* run.py:45: the reply arrives and float() parses it, or scope.query raises,
\* or float() raises; neither is caught
MfReply ==
    /\ MainAt("mf_reply")
    /\ \/ \E v \in SampleVals :
             /\ total' = Accumulate(total, v)
             /\ samples' = Append(samples, v)
             /\ trace' = Append(trace, Event("reply", "main"))
             /\ pc' = "mf_next"
             /\ UNCHANGED <<exc, exitCode>>
       \/ \E f \in QueryFailures :
             /\ trace' = Append(trace, Event("failed", "main"))
             /\ Uncaught(f, 1)
             /\ UNCHANGED <<total, samples>>
    /\ UNCHANGED <<hstack, installed, sigCount, handle, scopeSet, first_time, i,
                   n, issued, avg, period, out>>
    /\ UNCHANGED clock

\* run.py:46: total / n.  sum() of no items is the int 0, and 0 / 0 raises
MfReturn ==
    /\ MainAt("mf_return")
    /\ IF n = 0
       THEN /\ Uncaught("ZeroDivisionError", 1)
            /\ UNCHANGED <<avg, trace>>
       ELSE /\ avg' = Quotient(total, n)
            /\ trace' = Append(trace, Event("average", "main"))
            /\ pc' = "end_time"
            /\ UNCHANGED <<exc, exitCode>>
    /\ UNCHANGED <<hstack, installed, sigCount, handle, scopeSet, first_time, i,
                   n, issued, total, samples, period, out>>
    /\ UNCHANGED clock

\* run.py:102
EndTime ==
    /\ MainAt("end_time")
    /\ end_time' = Now
    /\ trace' = Append(trace, Event("end_time", "main"))
    /\ pc' = "convert"
    /\ UNCHANGED <<hstack, installed, sigCount, handle, scopeSet, first_time, i,
                   n, issued, total, samples, avg, period, out, exc, exitCode>>
    /\ UNCHANGED <<ticks, start_time, mjd, elapsed_time_ms>>

\* run.py:105
Convert ==
    /\ MainAt("convert")
    /\ LET r == frequency_to_period_scientific(avg)
       IN  IF r.raised # "none"
           THEN /\ Uncaught(r.raised, 1)
                /\ UNCHANGED <<period, trace>>
           ELSE /\ period' = r.value
                /\ trace' = Append(trace, Event("period", "main"))
                /\ pc' = "mjd"
                /\ UNCHANGED <<exc, exitCode>>
    /\ UNCHANGED <<hstack, installed, sigCount, handle, scopeSet, first_time, i,
                   n, issued, total, samples, avg, out>>
    /\ UNCHANGED clock

\* a variant that keeps the timestamp of the first cycle
MjdCached ==
    /\ MainAt("mjd")
    /\ mjd' = IF first_time THEN get_modified_julian_date(Now) ELSE mjd
    /\ trace' = Append(trace, Event("mjd", "main"))
    /\ pc' = "elapsed_ms"
    /\ UNCHANGED <<hstack, installed, sigCount, handle, scopeSet, first_time, i,
                   n, issued, total, samples, avg, period, out, exc, exitCode>>
    /\ UNCHANGED <<ticks, start_time, end_time, elapsed_time_ms>>

\* run.py:108, 14-17: datetime.now(timezone.utc) - MJD_EPOCH, as a day count
Mjd ==
    /\ MainAt("mjd")
    /\ mjd' = get_modified_julian_date(Now)
    /\ trace' = Append(trace, Event("mjd", "main"))
    /\ pc' = "elapsed_ms"
    /\ UNCHANGED <<hstack, installed, sigCount, handle, scopeSet, first_time, i,
                   n, issued, total, samples, avg, period, out, exc, exitCode>>
    /\ UNCHANGED <<ticks, start_time, end_time, elapsed_time_ms>>

\* run.py:111
ElapsedMs ==
    /\ MainAt("elapsed_ms")
    /\ elapsed_time_ms' = Elapsed(start_time, end_time)
    /\ pc' = "print_summary"
    /\ UNCHANGED <<hstack, installed, sigCount, handle, scopeSet, first_time, i,
                   n, issued, total, samples, avg, period, out, trace, exc, exitCode>>
    /\ UNCHANGED <<ticks, start_time, end_time, mjd>>

\* run.py:114-116
PrintSummary ==
    /\ MainAt("print_summary")
    /\ out' = IF first_time
              THEN out \o <<[Line("summary") EXCEPT !.counter = period,
                                                       !.mjd = FormatMjd(mjd)],
                             [Line("elapsed") EXCEPT
                                  !.gate = FormatGate(elapsed_time_ms)]>>
              ELSE out
    /\ pc' = "print_record"
    /\ UNCHANGED <<hstack, installed, sigCount, handle, scopeSet, first_time, i,
                   n, issued, total, samples, avg, period, trace, exc, exitCode>>
    /\ UNCHANGED clock

\* run.py:118
PrintRecord ==
    /\ MainAt("print_record")
    /\ out' = Append(out, [Line("record") EXCEPT
                                !.counter = period,
                                !.gate = FormatGate(elapsed_time_ms),
                                !.mjd = FormatMjd(mjd)])
    /\ trace' = Append(trace, Event("record", "main"))
    /\ pc' = "next_cycle"
    /\ UNCHANGED <<hstack, installed, sigCount, handle, scopeSet, first_time, i,
                   n, issued, total, samples, avg, period, exc, exitCode>>
    /\ UNCHANGED clock

\* a variant that never clears first_time
NextCycleKeepsFirstTime ==
    /\ MainAt("next_cycle")
    /\ i' = i + 1
    /\ pc' = "for"
    /\ UNCHANGED <<hstack, installed, sigCount, handle, scopeSet, first_time, n,
                   issued, total, samples, avg, period, out, trace, exc,
                   exitCode>>
    /\ UNCHANGED clock

\* run.py:120, and back to run.py:94
NextCycle ==
    /\ MainAt("next_cycle")
    /\ first_time' = FALSE
    /\ i' = i + 1
    /\ pc' = "for"
    /\ UNCHANGED <<hstack, installed, sigCount, handle, scopeSet, n, issued,
                   total, samples, avg, period, out, trace, exc, exitCode>>
    /\ UNCHANGED clock

\* ------------------------------------------------------------ release
\* run.py:122, 52: dso_close(scope) is entered from the end of the loop
DsoClosePrint ==
    /\ MainAt("dso_close")
    /\ out' = Append(out, Line("closing"))
    /\ pc' = "scope_close"
    /\ UNCHANGED <<hstack, installed, sigCount, handle, scopeSet, first_time, i,
                   n, issued, total, samples, avg, period, trace, exc, exitCode>>
    /\ UNCHANGED clock

\* run.py:53, called from run.py:122; the program then ends with status 0
DsoCloseScope ==
    /\ MainAt("scope_close")
    /\ trace' = Append(trace, Event("close", "main"))
    /\ handle' = "closed"
    /\ pc' = "finalize"
    /\ UNCHANGED <<hstack, installed, sigCount, scopeSet, first_time, i, n,
                   issued, total, samples, avg, period, out, exc, exitCode>>
    /\ UNCHANGED clock

\* the interpreter has finalized and the process is gone
Exit ==
    /\ MainAt("finalize")
    /\ pc' = "exited"
    /\ UNCHANGED <<hstack, installed, sigCount, handle, scopeSet, first_time, i,
                   n, issued, total, samples, avg, period, out, trace, exc, exitCode>>
    /\ UNCHANGED clock

\* ------------------------------------------------------------ SIGINT
\* SIGINT arrives and Python calls handle_sigint (run.py:68) on top of
\* whatever is executing
Sigint ==
    /\ installed
    /\ pc # "exited"
    /\ sigCount < MaxSignals
    /\ sigCount' = sigCount + 1
    /\ hstack' = Append(hstack, "h_dso_close")
    /\ trace' = Append(trace, Event("sigint", "os"))
    /\ UNCHANGED <<pc, installed, handle, scopeSet, first_time, i, n, issued,
                   total, samples, avg, period, out, exc, exitCode>>
    /\ UNCHANGED clock

\* run.py:72-73, 52: the notice is printed, the global scope is read (NameError
\* while it is unbound) and dso_close prints its notice
HandlerDsoClose ==
    /\ HandlerAt("h_dso_close")
    /\ IF scopeSet
       THEN /\ out' = out \o <<Line("ctrl_c"), Line("closing")>>
            /\ SetTop("h_scope_close")
            /\ UNCHANGED <<pc, exc, exitCode>>
       ELSE /\ out' = Append(out, Line("ctrl_c"))
            /\ Unwind("NameError", 1)
    /\ UNCHANGED <<installed, sigCount, handle, scopeSet, first_time, i, n,
                   issued, total, samples, avg, period, trace>>
    /\ UNCHANGED clock

\* run.py:53, called from run.py:73
HandlerCloseScope ==
    /\ HandlerAt("h_scope_close")
    /\ trace' = Append(trace, Event("close", "handler"))
    /\ handle' = "closed"
    /\ SetTop("h_exit")
    /\ UNCHANGED <<pc, installed, sigCount, scopeSet, first_time, i, n, issued,
                   total, samples, avg, period, out, exc, exitCode>>
    /\ UNCHANGED clock

\* a variant in which the handler returns to the interrupted code
HandlerReturns ==
    /\ HandlerAt("h_exit")
    /\ hstack' = SubSeq(hstack, 1, Len(hstack) - 1)
    /\ UNCHANGED <<pc, installed, sigCount, handle, scopeSet, first_time, i, n,
                   issued, total, samples, avg, period, out, trace, exc,
                   exitCode>>
    /\ UNCHANGED clock

\* run.py:74: sys.exit(0) raises SystemExit, which nothing catches
HandlerExit ==
    /\ HandlerAt("h_exit")
    /\ Unwind("SystemExit", 0)
    /\ UNCHANGED <<installed, sigCount, handle, scopeSet, first_time, i, n,
                   issued, total, samples, avg, period, out, trace>>
    /\ UNCHANGED clock

\* ------------------------------------------------------------ the program
Next ==
    \/ SignalInstall
    \/ OpenResource
    \/ Identify
    \/ Configure
    \/ Assign
    \/ For
    \/ PrintSamples
    \/ StartTime
    \/ CallMeasure
    \/ MfNext
    \/ MfReply
    \/ MfReturn
    \/ EndTime
    \/ Convert
    \/ Mjd
    \/ ElapsedMs
    \/ PrintSummary
    \/ PrintRecord
    \/ NextCycle
    \/ DsoClosePrint
    \/ DsoCloseScope
    \/ Exit
    \/ Sigint
    \/ HandlerDsoClose
    \/ HandlerCloseScope
    \/ HandlerExit

Spec == Init /\ [][Next]_vars

\* the interpreter keeps executing: a statement that is reached is executed,
\* in the main program and in a handler activation, and a query that was
\* sent is answered or fails; nothing is assumed about the arrival of SIGINT
Progress ==
    /\ WF_vars(SignalInstall)
    /\ WF_vars(OpenResource)
    /\ WF_vars(Identify)
    /\ WF_vars(Configure)
    /\ WF_vars(Assign)
    /\ WF_vars(For)
    /\ WF_vars(PrintSamples)
    /\ WF_vars(StartTime)
    /\ WF_vars(CallMeasure)
    /\ WF_vars(MfNext)
    /\ WF_vars(MfReply)
    /\ WF_vars(MfReturn)
    /\ WF_vars(EndTime)
    /\ WF_vars(Convert)
    /\ WF_vars(Mjd)
    /\ WF_vars(ElapsedMs)
    /\ WF_vars(PrintSummary)
    /\ WF_vars(PrintRecord)
    /\ WF_vars(NextCycle)
    /\ WF_vars(DsoClosePrint)
    /\ WF_vars(DsoCloseScope)
    /\ WF_vars(Exit)
    /\ WF_vars(HandlerDsoClose)
    /\ WF_vars(HandlerCloseScope)
    /\ WF_vars(HandlerExit)

SpecLive == Init /\ [][Next]_vars /\ Progress

\* ------------------------------------------------------------ the wall clock
\* the positions of the main program at which the wall clock is read next
ClockReadPcs == {"start_time", "end_time", "mjd"}

\* the wall clock advances, never backwards.  Only the value a read returns is
\* observed, so an advance is taken when the main program is about to read
\* the clock; handle_sigint reads no clock.
Tick ==
    /\ MainAt(pc)
    /\ pc \in ClockReadPcs
    /\ ticks < MaxTicks
    /\ ticks' = ticks + 1
    /\ UNCHANGED <<pc, hstack, installed, sigCount, handle, scopeSet, first_time,
                   i, n, issued, total, samples, avg, period, out, trace, exc,
                   exitCode, start_time, end_time, mjd, elapsed_time_ms>>

\* the main program and the clock.  SIGINT is left to Spec: once it is
\* delivered the main program executes nothing more (MainStopsAtSigint), so
\* the clock reads and the records of a run are those of the signal-free
\* steps before it.
NextClock ==
    \/ SignalInstall
    \/ OpenResource
    \/ Identify
    \/ Configure
    \/ Assign
    \/ For
    \/ PrintSamples
    \/ StartTime
    \/ CallMeasure
    \/ MfNext
    \/ MfReply
    \/ MfReturn
    \/ EndTime
    \/ Convert
    \/ Mjd
    \/ ElapsedMs
    \/ PrintSummary
    \/ PrintRecord
    \/ NextCycle
    \/ DsoClosePrint
    \/ DsoCloseScope
    \/ Exit
    \/ Tick

SpecClock == Init /\ [][NextClock]_vars

\* ------------------------------------------------------------ the functions alone
\* measure_frequency(scope, n) on an open instrument for n of -1 .. MaxN, and
\* frequency_to_period_scientific(frequency) for the rationals of a bounded
\* numerator and denominator
NArgs == -1 .. MaxN
FreqArgs == {Quotient(a, b) : a \in -MaxFreqNum .. MaxFreqNum, b \in 1 .. MaxFreqDen}

InitFn ==
    /\ hstack = <<>>
    /\ installed = TRUE
    /\ sigCount = 0
    /\ handle = "open"
    /\ scopeSet = TRUE
    /\ first_time = TRUE
    /\ i = 0
    /\ issued = 0
    /\ total = 0
    /\ samples = <<>>
    /\ period = NoPeriod
    /\ out = <<>>
    /\ trace = <<>>
    /\ exc = "none"
    /\ exitCode = 0
    /\ ticks = 0
    /\ start_time = NoTime
    /\ end_time = NoTime
    /\ mjd = NoMjd
    /\ elapsed_time_ms = NoValue
    /\ \/ pc = "mf_next" /\ n \in NArgs /\ avg = NoValue
       \/ pc = "convert" /\ n = 1 /\ avg \in FreqArgs

NextFn ==
    \/ MfNext
    \/ MfReply
    \/ MfReturn
    \/ Convert

SpecFn == InitFn /\ [][NextFn]_vars

\* ------------------------------------------------------------ observations
\* positions of the events of one kind in the trace
Idx(ev) == {j \in 1 .. Len(trace) : trace[j].ev = ev}
Closes == Idx("close")
ClosesBy(who) == {j \in Closes : trace[j].by = who}
CloseCount == Cardinality(Closes)
RecordLines == {j \in 1 .. Len(out) : out[j].kind = "record"}
RecordCount == Cardinality(RecordLines)
\* the cycles whose measure_frequency call and conversion both returned
Succeeded ==
    {c \in 0 .. TotalCycles :
        /\ \E j \in Idx("average") : trace[j].cycle = c
        /\ \E j \in Idx("period") : trace[j].cycle = c}
\* the errors that end a cycle: a failed query, an unparsable reply, a
\* non-positive average
CycleFailures == QueryFailures \cup {"ValueError_frequency"}
\* the positions inside the measure_frequency call of run.py:101
SamplerPcs == {"mf_next", "mf_reply", "mf_return"}
FirstSigint == CHOOSE j \in Idx("sigint") : \A k \in Idx("sigint") : j <= k

RECURSIVE SumSeq(_)
SumSeq(q) == IF q = <<>> THEN 0 ELSE q[1] + SumSeq(Tail(q))

\* ------------------------------------------------------------ C1
\* C1 (as claimed): with one SIGINT delivered at any point of the run, the
\* handler's release and the end-of-loop release never both run.
C1_ReleasePathsExclusive ==
    sigCount <= 1 => ~(ClosesBy("main") # {} /\ ClosesBy("handler") # {})

\* ------------------------------------------------------------ C2
\* C2 (as claimed): a run that failed in a cycle has released the instrument
\* exactly once when the process is gone, and exits with a non-zero status.
C2_FailedRunReleasesOnce ==
    (pc = "exited" /\ scopeSet /\ exc \in CycleFailures)
        => (CloseCount = 1 /\ exitCode # 0)

\* ------------------------------------------------------------ C3
\* SIGINT arrived inside the measure_frequency call of a cycle
InterruptedInCall ==
    /\ Idx("sigint") # {}
    /\ trace[FirstSigint].at \in SamplerPcs

\* SIGINT arrived after the first query of a cycle was issued and before its
\* last reply was there
InterruptedSampling ==
    /\ Idx("sigint") # {}
    /\ LET e == trace[FirstSigint]
       IN  \/ e.at = "mf_reply"
           \/ e.at = "mf_next" /\ e.issued >= 1 /\ e.issued < SamplesPerCycle

AbandonedCycle ==
    LET s == FirstSigint
        k == trace[s].cycle
    IN  /\ \A j \in s + 1 .. Len(trace) :
               trace[j].ev \notin {"query", "reply", "failed", "record"}
        /\ {out[j].cycle : j \in RecordLines} = 0 .. k - 1
        /\ RecordCount = k
        /\ pc = "exited" => exitCode = 0

\* C3 (as claimed): when SIGINT arrives while a cycle's measure_frequency call
\* is pending, no further query is issued, the records are those of the cycles
\* before, and the process ends with status 0 after exactly one release.
C3_InterruptedSamplingReleasesOnce ==
    InterruptedSampling => (AbandonedCycle /\ (pc = "exited" => CloseCount = 1))

\* C3, the part the code keeps: the same with SIGINT delivered only once, and
\* everything but the number of releases however often it is delivered.
C3_SingleDelivery ==
    InterruptedInCall =>
        /\ AbandonedCycle
        /\ (pc = "exited" /\ sigCount = 1) => CloseCount = 1
        /\ pc = "exited" => CloseCount >= 1

\* ------------------------------------------------------------ C4
\* C4: in a run without SIGINT and without a failure, the instrument is
\* released at most once, only after TotalCycles records were emitted, and at
\* the end exactly TotalCycles records were emitted and one release was made.
C4_Exhaustion ==
    (sigCount = 0 /\ exc = "none") =>
        /\ CloseCount <= 1
        /\ \A c \in Closes :
               Cardinality({j \in Idx("record") : j < c}) = TotalCycles
        /\ RecordCount <= TotalCycles
        /\ pc \in {"finalize", "exited"} =>
               (RecordCount = TotalCycles /\ CloseCount = 1)

C4_Witness ==
    /\ pc = "exited"
    /\ sigCount = 0
    /\ exc = "none"
    /\ RecordCount = TotalCycles
    /\ CloseCount = 1

\* ------------------------------------------------------------ C5
\* C5: the record of a cycle is emitted after all SamplesPerCycle queries of
\* that cycle were issued and answered, every query of a later cycle comes
\* after it, there is at most one record per cycle, and records appear in
\* increasing cycle order.
C5_NoPipelining ==
    /\ \A r \in Idx("record") :
          LET c == trace[r].cycle
          IN  /\ Cardinality({q \in Idx("query") : trace[q].cycle = c /\ q < r})
                    = SamplesPerCycle
              /\ Cardinality({q \in Idx("reply") : trace[q].cycle = c /\ q < r})
                    = SamplesPerCycle
              /\ \A q \in Idx("query") : trace[q].cycle = c => q < r
              /\ \A q \in Idx("query") : trace[q].cycle > c => q > r
    /\ \A q \in Idx("query") :
          \A c \in 0 .. trace[q].cycle - 1 :
              \E r \in Idx("record") : r < q /\ trace[r].cycle = c
    /\ \A r1, r2 \in Idx("record") :
          r1 < r2 => trace[r1].cycle < trace[r2].cycle
    /\ \A j1, j2 \in RecordLines : j1 < j2 => out[j1].cycle < out[j2].cycle

C5_Witness ==
    /\ RecordCount = 2
    /\ \E q \in Idx("query") : trace[q].cycle = 1

\* ------------------------------------------------------------ C6
\* C6 (as claimed): in every reachable state the number of records equals the
\* number of cycles whose measure_frequency call and conversion both succeeded.
C6_RecordsEqualSucceeded == RecordCount = Cardinality(Succeeded)

\* C6 (amended): every record belongs to a cycle whose measure_frequency call
\* and conversion both succeeded and carries its period string, so there are
\* never more records than such cycles, and as many whenever the loop is
\* between two cycles; a record is printed only for a positive average of
\* SamplesPerCycle parsed replies; the cycle that failed has no record.
C6_NoRecordForFailedCycle ==
    /\ \A j \in RecordLines :
          out[j].cycle \in Succeeded /\ out[j].counter # NoPeriod
    /\ RecordCount <= Cardinality(Succeeded)
    /\ pc = "for" => RecordCount = Cardinality(Succeeded)
    /\ pc = "next_cycle" =>
          /\ avg.num > 0 /\ avg.den > 0
          /\ Len(samples) = SamplesPerCycle
          /\ \E j \in RecordLines : out[j].cycle = i
    /\ (scopeSet /\ exc \in CycleFailures \cup {"ZeroDivisionError"}) =>
          \A j \in RecordLines : out[j].cycle # i

C6_Witness ==
    /\ pc = "exited"
    /\ exc = "ValueError_frequency"
    /\ i = 1
    /\ RecordCount = 1

\* ------------------------------------------------------------ C7
InstrumentUse == {"idn", "write", "query"}

\* C7: every command sent to the instrument comes after the resource was
\* opened and before any release of it, by the loop's end or by the handler.
C7_NoUseAfterRelease ==
    \A j \in 1 .. Len(trace) :
        trace[j].ev \in InstrumentUse =>
            /\ \E k \in 1 .. j - 1 : trace[k].ev = "open"
            /\ \A k \in 1 .. j - 1 : trace[k].ev # "close"

C7_Witness ==
    /\ pc = "exited"
    /\ ClosesBy("handler") # {}
    /\ Idx("query") # {}
    /\ trace[FirstSigint].at = "mf_reply"

\* ------------------------------------------------------------ C8
\* C8: frequency_to_period_scientific raises its ValueError and produces no
\* string for a frequency of 0 and for every negative frequency, and returns
\* a string without raising for every positive one; a string is never there
\* for a non-positive frequency.
C8_DomainError ==
    /\ [](period # NoPeriod => avg.num > 0)
    /\ [][pc = "convert" =>
            IF avg.num <= 0
            THEN exc' = "ValueError_frequency" /\ period' = NoPeriod
                 /\ pc' = "finalize"
            ELSE exc' = "none" /\ period' # NoPeriod /\ pc' = "mjd"]_vars

C8_Witness ==
    /\ exc = "ValueError_frequency"
    /\ avg.num < 0
    /\ period = NoPeriod

\* ------------------------------------------------------------ C9
\* C9: once a query of measure_frequency has failed, the error has left the
\* call: it was the k-th query after k - 1 parsed replies, exactly k queries
\* were issued and none after it, it was not retried, and no average was
\* returned.
C9_FailurePropagates ==
    Idx("failed") # {} =>
        /\ exc \in QueryFailures
        /\ pc = "finalize"
        /\ avg = NoValue
        /\ Idx("average") = {}
        /\ Cardinality(Idx("failed")) = 1
        /\ trace[Len(trace)].ev = "failed"
        /\ issued = Len(samples) + 1
        /\ issued <= n
        /\ Cardinality(Idx("query")) = issued
        /\ Cardinality(Idx("reply")) = issued - 1

C9_Witness ==
    /\ exc \in QueryFailures
    /\ n = 3
    /\ issued = 2
    /\ Len(samples) = 1

\* ------------------------------------------------------------ C10
\* C10 (as claimed): for n >= 1 measure_frequency issues exactly n queries and
\* returns the arithmetic mean of the n replies, and a call with n < 1 returns
\* no value.
C10_MeanAndArity ==
    /\ pc = "end_time" =>
          /\ Cardinality(Idx("query")) = n
          /\ Len(samples) = n
          /\ avg = Quotient(SumSeq(samples), n)
    /\ n < 1 => avg = NoValue

\* C10, the part the code keeps: the mean of exactly n replies for n >= 1, and
\* no value for n = 0.
C10_MeanForPositiveN ==
    /\ (pc = "end_time" /\ n >= 1) =>
          /\ Cardinality(Idx("query")) = n
          /\ Len(samples) = n
          /\ avg = Quotient(SumSeq(samples), n)
    /\ n = 0 => avg = NoValue

\* ------------------------------------------------------------ C11
\* the positions of the main program before the module-level scope is bound
StartupPcs == {"signal_install", "open_resource", "idn", "configure", "assign"}
\* SIGINT arrived before the main program had ended
Interrupted ==
    /\ Idx("sigint") # {}
    /\ trace[FirstSigint].at # "finalize"

\* C11 (as claimed), the exit status: a process that is gone ended with
\* status 0 after TotalCycles cycles when no SIGINT arrived and nothing
\* failed, and with status 0 after a release when SIGINT arrived during the
\* run.
C11_ExitStatus ==
    pc = "exited" =>
        /\ (sigCount = 0 /\ exc = "none") =>
               (exitCode = 0 /\ RecordCount = TotalCycles)
        /\ Interrupted => (exitCode = 0 /\ CloseCount >= 1)

\* C11, the part the code keeps: every run ends, the process is gone ...
C11_Terminates == <>(pc = "exited")

\* ... and the exit status is as claimed when SIGINT arrives once scope is
\* bound.
C11_ExitStatusOnceBound ==
    pc = "exited" =>
        /\ (sigCount = 0 /\ exc = "none") =>
               (exitCode = 0 /\ RecordCount = TotalCycles)
        /\ (Interrupted /\ trace[FirstSigint].at \notin StartupPcs) =>
               (exitCode = 0 /\ CloseCount >= 1)

\* ------------------------------------------------------------ C12
\* the positions of the main program inside the loop of run.py:94-120
LoopPcs ==
    {"for", "print_samples", "start_time", "measure", "mf_next", "mf_reply",
     "mf_return", "end_time", "convert", "mjd", "elapsed_ms",
     "print_summary", "print_record", "next_cycle"}

\* SIGINT was delivered more than once, each time while the loop was the
\* interrupted code
RepeatedSigint ==
    /\ Cardinality(Idx("sigint")) >= 2
    /\ \A j \in Idx("sigint") : trace[j].at \in LoopPcs

\* C12 (as claimed): when SIGINT is delivered more than once, the instrument
\* is still closed exactly once and the process ends with status 0.
C12_HandlerIdempotent ==
    (pc = "exited" /\ RepeatedSigint) => (CloseCount = 1 /\ exitCode = 0)

\* C12, the part the code keeps: the exit status, and at least one release.
C12_ExitStatus ==
    (pc = "exited" /\ RepeatedSigint) => (CloseCount >= 1 /\ exitCode = 0)

\* ------------------------------------------------------------ C13
\* the events of one kind that belong to cycle c
EventsOf(ev, c) == {j \in Idx(ev) : trace[j].cycle = c}

RECURSIVE DigitsValue(_)
DigitsValue(ds) ==
    IF ds = <<>> THEN 0
    ELSE 10 * DigitsValue(SubSeq(ds, 1, Len(ds) - 1)) + ds[Len(ds)]

\* a <= b for two non-negative numbers printed with the same number of digits
FixedLeq(a, b) ==
    \/ a.whole < b.whole
    \/ a.whole = b.whole /\ DigitsValue(a.digits) <= DigitsValue(b.digits)

\* once SIGINT was delivered the main program executes nothing more: it sits
\* where it was interrupted until the interpreter finalizes, reads no clock
\* and prints no record
MainStopsAtSigint ==
    [][sigCount >= 1 =>
          /\ pc' \in {pc, "finalize", "exited"}
          /\ UNCHANGED <<i, first_time, avg, period, start_time, end_time, mjd,
                         elapsed_time_ms>>
          /\ \A j \in Len(out) + 1 .. Len(out') :
                 out'[j].kind \in {"ctrl_c", "closing"}
          /\ \A j \in Len(trace) + 1 .. Len(trace') :
                 trace'[j].by # "main"]_vars

\* C13: with a wall clock that never goes backwards, the timestamps of the
\* records are non-decreasing in the order the records were printed, and the
\* timestamp of a record is the rendering of the one clock read of its own
\* cycle, made after all queries of that cycle were answered and
\* measure_frequency had returned.
C13_MjdNonDecreasing ==
    /\ \A j1, j2 \in RecordLines :
          j1 < j2 => FixedLeq(out[j1].mjd, out[j2].mjd)
    /\ \A j \in RecordLines :
          LET c == out[j].cycle
          IN  /\ Cardinality(EventsOf("mjd", c)) = 1
              /\ \A m \in EventsOf("mjd", c) :
                     /\ out[j].mjd =
                            FormatMjd(get_modified_julian_date(Time(trace[m].clock)))
                     /\ \E a \in EventsOf("average", c) : a < m
                     /\ \A q \in EventsOf("query", c) \cup EventsOf("reply", c) :
                            q < m

\* two records, the second printed on the day after the first
C13_Witness ==
    /\ pc = "exited"
    /\ \E j1, j2 \in RecordLines :
          /\ j1 < j2
          /\ out[j1].mjd.whole < out[j2].mjd.whole

\* ------------------------------------------------------------ C14
SummaryKinds == {"samples", "summary", "elapsed"}

\* C14: the lines of the diagnostic summary are printed in cycle 0 only, once
\* each when that cycle is complete, and every completed cycle, the first
\* included, has exactly one record line; no cycle has more than one.
C14_SummaryFirstCycleOnly ==
    /\ \A j \in 1 .. Len(out) : out[j].kind \in SummaryKinds => out[j].cycle = 0
    /\ \A k \in SummaryKinds :
          /\ Cardinality({j \in 1 .. Len(out) : out[j].kind = k}) <= 1
          /\ i >= 1 => \E j \in 1 .. Len(out) : out[j].kind = k
    /\ \A c \in 0 .. TotalCycles :
          LET lines == {j \in RecordLines : out[j].cycle = c}
          IN  /\ Cardinality(lines) <= 1
              /\ c < i => Cardinality(lines) = 1

C14_Witness ==
    /\ pc = "exited"
    /\ RecordCount = 2
    /\ \E j \in 1 .. Len(out) : out[j].kind = "summary"

\* ------------------------------------------------------------ C15
\* C15: for every record, the events of its cycle are in this order: the start
\* time is read, then exactly SamplesPerCycle queries are issued and answered
\* and the average is returned, with nothing else in between, then the end
\* time is read, then the period is converted, then the timestamp is read,
\* and the record is the last thing the cycle does; the gate of the record is
\* the rendering of 1000 times the clock at the end read minus the clock at
\* the start read, and is not negative with a clock that never goes backwards.
C15_StepOrder ==
    \A r \in Idx("record") :
        LET c == trace[r].cycle
        IN  /\ Cardinality(EventsOf("start_time", c)) = 1
            /\ Cardinality(EventsOf("end_time", c)) = 1
            /\ Cardinality(EventsOf("period", c)) = 1
            /\ Cardinality(EventsOf("mjd", c)) = 1
            /\ \A s \in EventsOf("start_time", c), e \in EventsOf("end_time", c),
                  p \in EventsOf("period", c), m \in EventsOf("mjd", c) :
                   /\ s < e /\ e < p /\ p < m /\ m < r
                   /\ \A k \in s + 1 .. e - 1 :
                          /\ trace[k].ev \in {"query", "reply", "average"}
                          /\ trace[k].cycle = c
                   /\ trace[s + 1].ev = "query"
                   /\ trace[e - 1].ev = "average"
                   /\ trace[e - 2].ev = "reply"
                   /\ \A q \in EventsOf("query", c) \cup EventsOf("reply", c) :
                          s < q /\ q < e
                   /\ Cardinality(EventsOf("query", c)) = SamplesPerCycle
                   /\ Cardinality(EventsOf("reply", c)) = SamplesPerCycle
                   /\ \A k \in r + 1 .. Len(trace) :
                          trace[k].by = "main" => trace[k].cycle # c
                   /\ trace[s].clock <= trace[e].clock
                   /\ \E j \in RecordLines :
                          /\ out[j].cycle = c
                          /\ out[j].gate =
                                 FormatGate(Elapsed(Time(trace[s].clock),
                                                    Time(trace[e].clock)))
                          /\ ~out[j].gate.neg

\* a record of the second cycle with a positive gate, and the clock advanced
\* before that cycle started
C15_Witness ==
    /\ pc = "exited"
    /\ \E j \in RecordLines :
          /\ out[j].cycle = 1
          /\ out[j].gate.whole > 0
    /\ \E s \in EventsOf("start_time", 1) : trace[s].clock > 0

\* ------------------------------------------------------------ C16
\* C16 (as claimed): whenever handle_sigint is executing, the module-level
\* scope is bound to an instrument that was opened.
C16_HandlerSeesHandle == hstack # <<>> => (scopeSet /\ handle # "none")

====
